---- MODULE Spec2Model ----
(***************************************************************************)
(* Model of the CEMADEN harvester (src/Cemaden.js, src/example_cemaden.js). *)
(*                                                                         *)
(* One run of Cemaden.getData is a cycle.  A cycle is a StartCycle step,   *)
(* one Station step per configured station (the body of the for loop,      *)
(* with every file operation it performs) and a Return step.  The disk     *)
(* (station directories, lastDate.dat, the .dat output files) is the only  *)
(* state that survives a cycle; the remote service changes on its own.     *)
(* Every file or network operation may fail; which ones fail in a step is  *)
(* an input of the step, and at most MaxFaults operations fail over a      *)
(* behaviour.  A reading is its station code and its timestamp.            *)
(*                                                                         *)
(* Spec, SpecOne and SpecDir are cycles run one after the other, for two   *)
(* stations, one station, and one station whose directory is there and     *)
(* empty.  SpecFields is the building of header and lines from the keys    *)
(* of the readings.  SpecRace is two cycles run at the same time.          *)
(***************************************************************************)
EXTENDS Integers, Sequences, FiniteSets, TLC

\* ---------------------------------------------------------------- bounds
MaxTime == 2      \* timestamps (dataHora) are 1..MaxTime
MaxLen == 2       \* readings in one remote payload
MaxPasses == 4    \* passes of the for loop over the stations, over all cycles
MaxFaults == 2    \* file and network operations that fail, over all cycles
MaxAppends == 2   \* batches appended to one output file

\* The station codes the remote service reports on
Codes == {"A", "B"}
Times == 1..MaxTime

\* One element of response.data['cemaden']
Reading == [codestacao : Codes, dataHora : Times]

\* The payloads the remote service may expose: readings, each at most once
Payloads ==
  UNION { { p \in [1..n -> Reading] : \A i, j \in 1..n : p[i] = p[j] => i = j }
          : n \in 0..MaxLen }

VARIABLES
  stations,    \* config.stations, by codEstacao, in configuration order
  remote,      \* the payload the remote service exposes now
  targetDir,   \* whether config.dataDir exists
  dirs,        \* station codes whose directory dataDir/<code> exists
  lastDate,    \* code -> content of dataDir/<code>/lastDate.dat, where it exists
  dat,         \* code -> (file timestamp -> lines of dataDir/<code>/<name>.dat)
  pc,          \* where the getData process is
  idx,         \* position of the for loop in config.stations
  outputDCP,   \* the batches pushed so far in this cycle
  passes,      \* passes of the for loop so far, over all cycles
  nFetch,      \* requests issued to the endpoint in this cycle
  lastErr,     \* how the latest Station step ended
  faults,      \* operations that have failed so far
  transport,   \* a fetch of this cycle failed
  quiet,       \* no file operation failed and the payload did not change in this cycle
  prevQuiet,   \* the cycle before this one returned and was quiet
  ordered,     \* every payload fetched so far was in non-decreasing dataHora order
  fds,         \* descriptors opened in this cycle and not closed
  pre,         \* the disk when this cycle started
  dcpsF,       \* a batch of readings, each by the keys it carries
  fileF,       \* the lines of one output file, each by the fields of its values
  appends,     \* batches appended to fileF so far
  cyc,         \* two getData processes at once: where each is and what it holds
  overlap      \* one of the two has taken a step while the other was in a cycle

disk == <<dirs, lastDate, dat>>
\* The state of getData and of the disk it works on
cycleVars == <<stations, remote, targetDir, dirs, lastDate, dat, pc, idx, outputDCP, passes,
               nFetch, lastErr, faults, transport, quiet, prevQuiet, ordered, fds, pre>>
\* The state of the line builders taken alone
fieldVars == <<dcpsF, fileF, appends>>
\* The state of two getData processes run side by side
raceVars == <<cyc, overlap>>
vars == <<cycleVars, fieldVars, raceVars>>

\* ------------------------------------------------------------- helpers
Last(s) == s[Len(s)]

Put(f, n, c) == [x \in DOMAIN f \cup {n} |-> IF x = n THEN c ELSE f[x]]

\* Readings of a batch are in non-decreasing timestamp order
Ordered(batch) ==
  \A i, j \in 1..Len(batch) : i < j => batch[i].dataHora <= batch[j].dataHora

\* getDCPs without the test on codestacao
getDCPsAll(payload, cod) == payload

\* The station matcher of getDCPs: the elements with the station's code
getDCPs(payload, cod) == SelectSeq(payload, LAMBDA e : e.codestacao = cod)

\* compareDates with isBefore in place of isSameOrBefore
compareDatesOrSame(stationDate, lastFileDate) ==
  IF Len(lastFileDate) = 0 THEN TRUE ELSE ~(stationDate < lastFileDate[1])

\* lastDate.dat holds text; a file without text parses to an invalid date,
\* and moment's isSameOrBefore is false for an invalid date
compareDates(stationDate, lastFileDate) ==
  IF Len(lastFileDate) = 0 THEN TRUE ELSE ~(stationDate <= lastFileDate[1])

\* dcpsToSave without the test of compareDates
dcpsToSaveAll(dcps, last) == dcps

\* The for loop that builds dcpsToSave
dcpsToSaveOf(dcps, last) ==
  SelectSeq(dcps, LAMBDA d : compareDates(d.dataHora, last))

\* The saved file is named by the station and the reading's timestamp; it
\* lies in the directory of the station, so the timestamp names it there
buildFileName(dcp) == dcp.dataHora

\* The header line, told apart from a data line by hdr
buildHeader(first) == [hdr |-> TRUE, dataHora |-> 0]

buildLine(dcp) == [hdr |-> FALSE, dataHora |-> dcp.dataHora]

Lines(batch) == [i \in 1..Len(batch) |-> buildLine(batch[i])]

(***************************************************************************)
(* openFile(fileName, defaultData): what the file holds afterwards,        *)
(* whether a descriptor came back (fd) and whether the call threw.         *)
(***************************************************************************)
openFile(exists, content, defaultData) ==
  LET cur == IF exists THEN content ELSE <<>>
      Out(c, f, t, n, h) ==
        [exists |-> TRUE, content |-> c, fd |-> f, thrown |-> t, faults |-> n, held |-> h]
  IN  \* 'a+' opens (creating the file), statSync answers
      { Out(IF Len(cur) = 0 THEN defaultData ELSE cur, TRUE, FALSE, 0, 1) }
      \* ... the file is empty and writing the default data throws
      \cup (IF Len(cur) = 0 THEN { Out(<<>>, FALSE, TRUE, 1, 1) } ELSE {})
      \* 'a+' throws, 'w' opens and truncates: default data written, or that throws
      \cup { Out(defaultData, TRUE, FALSE, 1, 1), Out(<<>>, FALSE, TRUE, 2, 1) }
      \* 'a+' opens, statSync throws, 'w' opens and truncates: the same, and
      \* the 'a+' descriptor is left behind
      \cup { Out(defaultData, TRUE, FALSE, 1, 2), Out(<<>>, FALSE, TRUE, 2, 2) }
      \* 'a+' throws and 'w' throws: no descriptor, the finally block returns undefined
      \cup { [exists |-> exists, content |-> cur, fd |-> FALSE, thrown |-> FALSE,
              faults |-> 2, held |-> 0] }
      \* 'a+' opens, statSync throws, 'w' throws: the default data goes to the
      \* 'a+' descriptor (or that write throws), then the error of 'w' is rethrown
      \cup { Out(cur \o defaultData, FALSE, TRUE, 2, 1), Out(cur, FALSE, TRUE, 3, 1) }

\* Where control goes after a Station step that ended with `err`
AfterStation(err) ==
  CASE err = "read" -> "crashed"   \* throw inside the fs.readFile callback
    [] err = "list" -> "hung"      \* listFileFromDirectory never settles
    [] OTHER -> "loop"             \* no error, or the catch of the for loop

\* The end of a Station step: the disk it leaves and how it ended
StepEnd(newDirs, newLast, newDat, err, n, batch, h) ==
  /\ faults + n <= MaxFaults
  /\ faults' = faults + n
  /\ dirs' = newDirs
  /\ lastDate' = newLast
  /\ dat' = newDat
  /\ lastErr' = err
  /\ quiet' = (quiet /\ n = 0 /\ err \in {"none", "nodata"})
  /\ transport' = (transport \/ err = "transport")
  /\ pc' = AfterStation(err)
  /\ idx' = IF AfterStation(err) = "loop" THEN idx + 1 ELSE idx
  /\ outputDCP' = IF err = "none" THEN Append(outputDCP, batch) ELSE outputDCP
  /\ fds' = fds + h

(***************************************************************************)
(* Lines 298-315 and 320-337: open <name>.dat with the header as default   *)
(* data, read it with csvtojson, write one line per reading, close.        *)
(* n0 counts the operations that failed earlier in the step, h0 the        *)
(* descriptors it has left open.                                           *)
(***************************************************************************)
WriteBatch(st, newDirs, newLast, batch, first, n0, dcps, h0) ==
  LET name == buildFileName(Last(batch))
      d == dat[st]
  IN \E o \in openFile(name \in DOMAIN d, IF name \in DOMAIN d THEN d[name] ELSE <<>>,
                       <<buildHeader(first)>>) :
       LET d1 == IF o.exists THEN Put(d, name, o.content) ELSE d
           With(x) == [dat EXCEPT ![st] = x]
           n1 == n0 + o.faults
           h1 == h0 + o.held
       IN IF o.thrown
          THEN StepEnd(newDirs, newLast, With(d1), "open", n1, dcps, h1)
          ELSE IF ~o.exists
          \* csv().fromFile rejects: the file does not exist
          THEN StepEnd(newDirs, newLast, With(d1), "csv", n1, dcps, h1)
          ELSE \/ StepEnd(newDirs, newLast, With(d1), "csv", n1 + 1, dcps, h1)
               \/ IF ~o.fd
                  \* fs.writeSync(undefined, ...) throws
                  THEN StepEnd(newDirs, newLast, With(d1), "open", n1, dcps, h1)
                  ELSE \E k \in 0..Len(batch) :
                         LET d2 == Put(d1, name, o.content \o Lines(SubSeq(batch, 1, k)))
                         IN IF k < Len(batch)
                            THEN StepEnd(newDirs, newLast, With(d2), "write", n1 + 1, dcps, h1)
                            \* fs.closeSync closes the descriptor; when it throws
                            \* the descriptor is released or not
                            ELSE \/ StepEnd(newDirs, newLast, With(d2), "none", n1, dcps, h1 - 1)
                                 \/ \E h \in {h1 - 1, h1} :
                                      StepEnd(newDirs, newLast, With(d2), "close", n1 + 1, dcps, h)

\* Lines 264-273: the station directory does not exist; the descriptor of
\* lastDate.dat is kept in a constant of the block and not used again
FirstRun(st, dcps) ==
  \/ StepEnd(dirs, lastDate, dat, "mkdir", 1, dcps, 0)
  \/ \E o \in openFile(FALSE, <<>>, <<Last(dcps).dataHora>>) :
       LET newLast == IF o.exists THEN Put(lastDate, st, o.content) ELSE lastDate
       IN IF o.thrown
          THEN StepEnd(dirs \cup {st}, newLast, dat, "open", o.faults, dcps, o.held)
          ELSE WriteBatch(st, dirs \cup {st}, newLast, dcps, dcps[1], o.faults, dcps, o.held)

\* Lines 115-130: what saveLastDate leaves in lastDate.dat
saveLastDate(content, newDate) ==
  { [content |-> <<newDate>>, faults |-> 0],   \* written, resolve(true)
    [content |-> content, faults |-> 1],       \* writeFile fails before truncating
    [content |-> <<>>, faults |-> 1] }         \* writeFile fails after truncating

\* Lines 278-316: the directory holds files
LaterRun(st, dcps) ==
  IF st \notin DOMAIN lastDate
  THEN StepEnd(dirs, lastDate, dat, "read", 0, dcps, 0)          \* getLastDate: no such file
  ELSE \/ StepEnd(dirs, lastDate, dat, "read", 1, dcps, 0)       \* getLastDate: readFile fails
       \/ LET dcpsToSave == dcpsToSaveOf(dcps, lastDate[st])
          IN IF Len(dcpsToSave) = 0
             THEN StepEnd(dirs, lastDate, dat, "none", 0, dcps, 0)
             ELSE \/ StepEnd(dirs, lastDate, dat, "read", 1, dcps, 0)  \* saveLastDate: readFile fails
                  \/ \E s \in saveLastDate(lastDate[st], Last(dcpsToSave).dataHora) :
                       WriteBatch(st, dirs, Put(lastDate, st, s.content), dcpsToSave,
                                  dcpsToSave[1], s.faults, dcps, 0)

\* Lines 253-341: a station with a matched batch; its directory is named by
\* the code of the last reading of the batch.  The batch is not empty, so the
\* test of line 256 never succeeds.
Process(dcps) ==
  LET dcpName == Last(dcps).codestacao
  IN IF dcpName \notin dirs
     THEN FirstRun(dcpName, dcps)
     ELSE \/ StepEnd(dirs, lastDate, dat, "list", 1, dcps, 0)   \* readdir fails
          \/ IF dcpName \in DOMAIN lastDate \/ DOMAIN dat[dcpName] # {}
             THEN LaterRun(dcpName, dcps)
             ELSE WriteBatch(dcpName, dirs, lastDate, dcps, dcps[1], 0, dcps, 0)

\* ------------------------------------------------------------ actions
\* The state after construction (lines 146-181), directories apart: no file
\* on the disk, no cycle started
Fresh ==
  /\ remote \in Payloads
  /\ lastDate = << >>
  /\ dat = [c \in Codes |-> << >>]
  /\ pc = "idle"
  /\ idx = 1
  /\ outputDCP = << >>
  /\ passes = 0
  /\ nFetch = 0
  /\ lastErr = "none"
  /\ faults = 0
  /\ transport = FALSE
  /\ quiet = TRUE
  /\ prevQuiet = FALSE
  /\ ordered = TRUE
  /\ fds = 0

\* The line builders are not looked at
NoFields == dcpsF = << >> /\ fileF = << >> /\ appends = 0

\* The two processes side by side are not looked at
NoRace == cyc = << >> /\ overlap = FALSE

\* Nothing on the disk
Start ==
  /\ Fresh
  /\ targetDir = FALSE
  /\ dirs = {}
  /\ pre = [dirs |-> {}, lastDate |-> << >>, dat |-> [c \in Codes |-> << >>]]

\* The remote service publishes another payload
RemoteUpdate ==
  /\ \E p \in Payloads \ {remote} : remote' = p
  /\ quiet' = FALSE
  /\ UNCHANGED <<stations, targetDir, dirs, lastDate, dat, pc, idx, outputDCP, passes,
                 nFetch, lastErr, faults, transport, prevQuiet, ordered, fds, pre>>
  /\ UNCHANGED fieldVars
  /\ UNCHANGED raceVars

\* getData is called (lines 237-245): a new process, the data directory is made
StartCycle ==
  /\ pc \in {"idle", "returned", "rejected", "crashed", "hung"}
  /\ passes + Len(stations) <= MaxPasses
  /\ \/ /\ targetDir' = TRUE
        /\ pc' = "loop"
        /\ faults' = faults
     \/ /\ ~targetDir              \* mkdirSync throws outside the try
        /\ faults < MaxFaults
        /\ faults' = faults + 1
        /\ targetDir' = FALSE
        /\ pc' = "rejected"
  /\ idx' = 1
  /\ outputDCP' = << >>
  /\ nFetch' = 0
  /\ lastErr' = "none"
  /\ transport' = FALSE
  /\ fds' = 0
  /\ prevQuiet' = (pc = "returned" /\ quiet)
  /\ quiet' = (pc' = "loop")
  /\ pre' = [dirs |-> dirs, lastDate |-> lastDate, dat |-> dat]
  /\ UNCHANGED <<stations, remote, dirs, lastDate, dat, passes, ordered>>
  /\ UNCHANGED fieldVars
  /\ UNCHANGED raceVars

\* One pass of the for loop (lines 248-349)
Station ==
  /\ pc = "loop"
  /\ idx <= Len(stations)
  /\ nFetch' = nFetch + 1
  /\ passes' = passes + 1
  /\ UNCHANGED <<stations, remote, targetDir, prevQuiet, pre>>
  /\ UNCHANGED fieldVars
  /\ UNCHANGED raceVars
  /\ LET st == stations[idx]
         dcps == getDCPs(remote, st)
     IN \/ /\ StepEnd(dirs, lastDate, dat, "transport", 1, dcps, 0)
           /\ UNCHANGED ordered
        \/ /\ ordered' = (ordered /\ \A c \in Codes : Ordered(getDCPs(remote, c)))
           /\ IF Len(dcps) = 0
              THEN StepEnd(dirs, lastDate, dat, "nodata", 0, dcps, 0)
              ELSE Process(dcps)

\* Line 351
Return ==
  /\ pc = "loop"
  /\ idx > Len(stations)
  /\ pc' = "returned"
  /\ UNCHANGED <<stations, remote, targetDir, dirs, lastDate, dat, idx, outputDCP, passes,
                 nFetch, lastErr, faults, transport, quiet, prevQuiet, ordered, fds, pre>>
  /\ UNCHANGED fieldVars
  /\ UNCHANGED raceVars

\* Two configured stations
Init == stations = <<"A", "B">> /\ Start /\ NoFields /\ NoRace

\* One configured station
InitOne == stations = <<"A">> /\ Start /\ NoFields /\ NoRace

\* One configured station whose directory is there and empty: an earlier
\* cycle made it with mkdirSync (line 265) and could create no file in it
InitDir ==
  /\ stations = <<"A">>
  /\ Fresh
  /\ targetDir = TRUE
  /\ dirs = {"A"}
  /\ pre = [dirs |-> {"A"}, lastDate |-> << >>, dat |-> [c \in Codes |-> << >>]]
  /\ NoFields
  /\ NoRace

Next == RemoteUpdate \/ StartCycle \/ Station \/ Return

Spec == Init /\ [][Next]_vars

SpecOne == InitOne /\ [][Next]_vars

SpecDir == InitDir /\ [][Next]_vars

(***************************************************************************)
(* The line builders taken alone.  Here a reading is the sequence of its   *)
(* keys as Object.keys lists them, and a line of the file is the sequence  *)
(* of the fields its delimited values stand for; eol tells whether the     *)
(* line ends with "\r\n".                                                  *)
(***************************************************************************)
\* The keys a reading of the payload may carry
Fields == {"cidade", "chuva", "nivel"}

\* config.exclude
excludeOptions == {"cidade"}

\* A reading: some of the keys, each once, in any order
ReadingF ==
  UNION { { k \in [1..n -> Fields] : \A i, j \in 1..n : k[i] = k[j] => i = j }
          : n \in 0..Cardinality(Fields) }

\* A matched batch: at least one reading
BatchesF == UNION { [1..n -> ReadingF] : n \in 1..MaxLen }

\* Array.prototype.reverse
Reverse(s) == [i \in 1..Len(s) |-> s[Len(s) + 1 - i]]

buildKeys(dcp, exclude) == SelectSeq(dcp, LAMBDA e : e \notin exclude)

\* buildHeader(station, arrayKeys): TIMESTAMP, then the names of the keys
buildHeaderFields(arrayKeys) ==
  [hdr |-> TRUE, cols |-> <<"TIMESTAMP">> \o Reverse(arrayKeys), eol |-> Len(arrayKeys) > 0]

\* buildLine(dcp, arrayKeys): the date, then the value of each key
buildLineFields(dcp, arrayKeys) ==
  [hdr |-> FALSE, cols |-> <<"TIMESTAMP">> \o Reverse(arrayKeys), eol |-> Len(arrayKeys) > 0]

\* A cycle has another batch for the file
FetchFields ==
  /\ appends < MaxAppends
  /\ \E b \in BatchesF \ {dcpsF} : dcpsF' = b
  /\ UNCHANGED <<fileF, appends>>
  /\ UNCHANGED cycleVars
  /\ UNCHANGED raceVars

\* Lines 298-312: header from the keys of the first reading, openFile with
\* the header as default data, one line per reading from its own keys
SaveFields ==
  /\ appends < MaxAppends
  /\ LET header == buildHeaderFields(buildKeys(dcpsF[1], excludeOptions))
         o == CHOOSE x \in openFile(Len(fileF) > 0, fileF, <<header>>) : x.faults = 0
     IN fileF' = o.content \o
                   [i \in 1..Len(dcpsF) |->
                      buildLineFields(dcpsF[i], buildKeys(dcpsF[i], excludeOptions))]
  /\ appends' = appends + 1
  /\ UNCHANGED dcpsF
  /\ UNCHANGED cycleVars
  /\ UNCHANGED raceVars

InitFields ==
  /\ stations = <<"A">>
  /\ Start
  /\ remote = << >>
  /\ dcpsF \in BatchesF
  /\ fileF = << >>
  /\ appends = 0
  /\ NoRace

NextFields == FetchFields \/ SaveFields

SpecFields == InitFields /\ [][NextFields]_vars

(***************************************************************************)
(* Two getData processes started against the same dataDir, one configured  *)
(* station.  A process gives way at every await of getData (getDCPs,       *)
(* listFileFromDirectory, getLastDate, saveLastDate, csv().fromFile); what *)
(* it runs between two awaits is one step.  No operation throws or         *)
(* rejects; saveLastDate resolves true or false (lines 119-126), and       *)
(* getData goes on in the same way after either.                           *)
(***************************************************************************)
Cycles == {"c1", "c2"}

Resting == {"idle", "done", "crashed"}

\* What a process holds: the matched batch, the content of lastDate.dat it
\* read, the readings it is about to write
Held(at, dcps, last, toSave) == [at |-> at, dcps |-> dcps, last |-> last, toSave |-> toSave]

\* openFile of the output file, no operation failing: the header goes in
\* when the file is empty
OpenDat(st, batch, first) ==
  LET name == buildFileName(Last(batch))
      d == dat[st]
      o == CHOOSE x \in openFile(name \in DOMAIN d, IF name \in DOMAIN d THEN d[name] ELSE <<>>,
                                 <<buildHeader(first)>>) : x.faults = 0
  IN [dat EXCEPT ![st] = Put(d, name, o.content)]

\* A step of process p: the other process is noted when it is in a cycle
Turn(p) ==
  /\ overlap' = (overlap \/ \E q \in Cycles \ {p} : cyc[q].at \notin Resting)
  /\ UNCHANGED <<stations, remote, pc, idx, outputDCP, nFetch, lastErr, transport,
                 quiet, prevQuiet, fds, pre>>
  /\ UNCHANGED fieldVars

\* Lines 237-276 and 318-326: getData starts, getDCPs resolves, and the
\* process runs on to its next await
RaceFetch(p) ==
  /\ cyc[p].at \in {"idle", "done"}
  /\ passes < MaxPasses
  /\ passes' = passes + 1
  /\ targetDir' = TRUE
  /\ ordered' = (ordered /\ \A c \in Codes : Ordered(getDCPs(remote, c)))
  /\ UNCHANGED faults
  /\ Turn(p)
  /\ LET st == stations[1]
         dcps == getDCPs(remote, st)
     IN IF Len(dcps) = 0
        THEN /\ cyc' = [cyc EXCEPT ![p] = Held("done", dcps, << >>, << >>)]
             /\ UNCHANGED <<dirs, lastDate, dat>>
        ELSE IF st \notin dirs
        THEN LET o == CHOOSE x \in openFile(FALSE, << >>, <<Last(dcps).dataHora>>) : x.faults = 0
             IN /\ dirs' = dirs \cup {st}
                /\ lastDate' = Put(lastDate, st, o.content)
                /\ dat' = OpenDat(st, dcps, dcps[1])
                /\ cyc' = [cyc EXCEPT ![p] = Held("csv", dcps, << >>, dcps)]
        ELSE /\ cyc' = [cyc EXCEPT ![p] = Held("list", dcps, << >>, << >>)]
             /\ UNCHANGED <<dirs, lastDate, dat>>

\* Lines 275-280 and 318-326: listFileFromDirectory resolves
RaceList(p) ==
  /\ cyc[p].at = "list"
  /\ Turn(p)
  /\ UNCHANGED <<targetDir, dirs, lastDate, passes, ordered, faults>>
  /\ LET st == stations[1]
         dcps == cyc[p].dcps
     IN IF st \in DOMAIN lastDate \/ DOMAIN dat[st] # {}
        THEN /\ cyc' = [cyc EXCEPT ![p].at = "read"]
             /\ UNCHANGED dat
        ELSE /\ dat' = OpenDat(st, dcps, dcps[1])
             /\ cyc' = [cyc EXCEPT ![p] = Held("csv", dcps, << >>, dcps)]

\* Lines 280-292: getLastDate resolves with what lastDate.dat holds now, the
\* batch is filtered against it
RaceRead(p) ==
  /\ cyc[p].at = "read"
  /\ Turn(p)
  /\ UNCHANGED <<targetDir, dirs, lastDate, dat, passes, ordered, faults>>
  /\ LET st == stations[1]
         dcps == cyc[p].dcps
     IN IF st \notin DOMAIN lastDate
        THEN cyc' = [cyc EXCEPT ![p].at = "crashed"]
        ELSE LET dcpsToSave == dcpsToSaveOf(dcps, lastDate[st])
             IN cyc' = [cyc EXCEPT ![p] = Held(IF Len(dcpsToSave) = 0 THEN "done" ELSE "save",
                                               dcps, lastDate[st], dcpsToSave)]

\* Lines 292-307: saveLastDate resolves, its result is not looked at, the
\* output file is opened
RaceSave(p) ==
  /\ cyc[p].at = "save"
  /\ Turn(p)
  /\ UNCHANGED <<targetDir, dirs, passes, ordered>>
  /\ LET st == stations[1]
         dcpsToSave == cyc[p].toSave
     IN \E s \in saveLastDate(lastDate[st], Last(dcpsToSave).dataHora) :
          /\ faults + s.faults <= MaxFaults
          /\ faults' = faults + s.faults
          /\ lastDate' = Put(lastDate, st, s.content)
          /\ dat' = OpenDat(st, dcpsToSave, dcpsToSave[1])
          /\ cyc' = [cyc EXCEPT ![p].at = "csv"]

\* Lines 307-315 and 328-341: csv().fromFile resolves, the lines are
\* written to the descriptor opened for appending
RaceWrite(p) ==
  /\ cyc[p].at = "csv"
  /\ Turn(p)
  /\ UNCHANGED <<targetDir, dirs, lastDate, passes, ordered, faults>>
  /\ LET st == stations[1]
         batch == cyc[p].toSave
         name == buildFileName(Last(batch))
         old == IF name \in DOMAIN dat[st] THEN dat[st][name] ELSE << >>
     IN /\ dat' = [dat EXCEPT ![st] = Put(dat[st], name, old \o Lines(batch))]
        /\ cyc' = [cyc EXCEPT ![p].at = "done"]

InitRace ==
  /\ stations = <<"A">>
  /\ Start
  /\ NoFields
  /\ cyc = [p \in Cycles |-> Held("idle", << >>, << >>, << >>)]
  /\ overlap = FALSE

NextRace ==
  \/ RemoteUpdate
  \/ \E p \in Cycles : RaceFetch(p)
  \/ \E p \in Cycles : RaceList(p)
  \/ \E p \in Cycles : RaceRead(p)
  \/ \E p \in Cycles : RaceSave(p)
  \/ \E p \in Cycles : RaceWrite(p)

SpecRace == InitRace /\ [][NextRace]_vars

\* ------------------------------------------------------------- claims
SamePayloadTwice ==
  /\ pc = "returned"
  /\ quiet
  /\ prevQuiet
  /\ \A c \in Codes : Ordered(getDCPs(remote, c))

\* A station pass is being taken (every pass issues one request)
Pass == pc = "loop" /\ passes' = passes + 1

\* C1: when getData has run twice in succession on the same payload, readings
\* in non-decreasing order and no operation failing, the disk after the second
\* cycle is the disk before it: no line appended, no file created, lastDate.dat
\* unchanged.
C1_Idempotent ==
  SamePayloadTwice => (dirs = pre.dirs /\ lastDate = pre.lastDate /\ dat = pre.dat)

C1_Witness ==
  /\ SamePayloadTwice
  /\ Len(getDCPs(remote, "A")) = 2
  /\ "A" \in DOMAIN lastDate
  /\ lastDate["A"] = <<Last(getDCPs(remote, "A")).dataHora>>
  /\ \E n \in DOMAIN dat["A"] : Len(dat["A"][n]) = 3

\* How often the line of reading (c, t) stands in the output files of c
Occurrences(c, t) ==
  Cardinality({ x \in UNION { {<<n, i>> : i \in DOMAIN dat[c][n]} : n \in DOMAIN dat[c] } :
                dat[c][x[1]][x[2]] = buildLine([codestacao |-> c, dataHora |-> t]) })

\* C2: over any sequence of cycles on ordered payloads, failed writes
\* included, no reading is appended to its station's files more than once.
C2_NoDuplicateWrites ==
  ordered => \A c \in Codes : \A t \in Times : Occurrences(c, t) <= 1

\* C3: in a pass for a station that has a watermark, when appending the
\* lines fails the watermark after the pass is the watermark before it
\* (stated for ordered payloads).
C3_AtomicAdvance ==
  [][ (/\ Pass
       /\ ordered'
       /\ stations[idx] \in DOMAIN lastDate
       /\ Len(lastDate[stations[idx]]) > 0
       /\ lastErr' = "write") => lastDate' = lastDate ]_vars

\* C4: on the first ingestion of a station (no directory), when writing the
\* data lines fails no lastDate.dat exists after the pass.
C4_WatermarkAfterFirstWrite ==
  [][ (/\ Pass
       /\ stations[idx] \notin dirs
       /\ lastErr' = "write") => stations[idx] \notin DOMAIN lastDate' ]_vars

C6_TransportAborts == lastErr = "transport" => pc = "rejected"

\* C7: in a cycle in which a transport failure occurs the disk is not
\* changed: watermarks and output files are as they were when it started.
C7_TransportMutatesNothing ==
  transport => (dirs = pre.dirs /\ lastDate = pre.lastDate /\ dat = pre.dat)

\* C8: a cycle that returns has issued exactly one request to the endpoint.
C8_OneFetchPerCycle == pc = "returned" => nFetch = 1

\* C9: a pass that fails with a per-station error other than a transport
\* failure is caught: the loop goes on and getData returns.
C9_FailureIsolation ==
  lastErr \in {"mkdir", "open", "csv", "write", "close", "list", "read"}
    => pc \in {"loop", "returned"}

\* C10: a pass whose fetch succeeds on a payload without a reading of the
\* station changes nothing on disk, pushes no batch and goes on to the next
\* station without an error.
C10_NoDataSkips ==
  [][ (/\ Pass
       /\ lastErr' # "transport"
       /\ \A i \in 1..Len(remote) : remote[i].codestacao # stations[idx])
      => (/\ lastErr' = "nodata"
          /\ UNCHANGED <<targetDir, dirs, lastDate, dat, outputDCP>>
          /\ pc' = "loop"
          /\ idx' = idx + 1) ]_vars

C10_Witness ==
  /\ pc = "returned"
  /\ faults = 0
  /\ quiet
  /\ Len(getDCPs(remote, "A")) = 0
  /\ "A" \notin dirs
  /\ "B" \in DOMAIN lastDate
  /\ outputDCP = <<getDCPs(remote, "B")>>

\* The readings of a batch with a timestamp after w, in the order of the batch
RECURSIVE Newer(_, _)
Newer(batch, w) ==
  IF Len(batch) = 0 THEN << >>
  ELSE IF Head(batch).dataHora > w
       THEN <<Head(batch)>> \o Newer(Tail(batch), w)
       ELSE Newer(Tail(batch), w)

\* C11: for the matched batch of every station and every watermark w, the
\* readings selected for saving are the readings of the batch with a
\* timestamp strictly after w, in their order in the batch (a reading at w is
\* left out); against an empty watermark the whole batch is selected.
C11_DedupFilter ==
  \A c \in Codes :
    LET batch == getDCPs(remote, c)
    IN /\ \A w \in Times : dcpsToSaveOf(batch, <<w>>) = Newer(batch, w)
       /\ dcpsToSaveOf(batch, << >>) = batch

\* A cycle filtered a batch holding a reading at the watermark and a later
\* one, and saved the later one only
C11_Witness ==
  /\ pc = "returned"
  /\ quiet
  /\ "A" \in DOMAIN pre.lastDate
  /\ pre.lastDate["A"] = <<1>>
  /\ Len(getDCPs(remote, "A")) = 2
  /\ getDCPs(remote, "A")[1].dataHora = 1
  /\ getDCPs(remote, "A")[2].dataHora = 2
  /\ lastDate["A"] = <<2>>
  /\ 2 \in DOMAIN dat["A"]
  /\ dat["A"][2] = <<buildHeader(getDCPs(remote, "A")[2]), buildLine(getDCPs(remote, "A")[2])>>

\* The readings of a batch that are new to station st: all of them when st
\* has no timestamp in lastDate.dat
NewOf(st, batch) ==
  IF st \in DOMAIN lastDate /\ Len(lastDate[st]) > 0
  THEN Newer(batch, lastDate[st][1])
  ELSE batch

\* C12: a pass in which no operation fails and that saves a non-empty batch
\* of new readings (first run or later run) appends all lines of the batch,
\* in batch order, to the one file named by the last new reading, touches no
\* other file of the station, and leaves the watermark at the timestamp of
\* that last reading.
C12_SaveBatch ==
  [][ LET st == stations[idx]
          new == NewOf(st, getDCPs(remote, st))
      IN (/\ Pass
          /\ faults' = faults
          /\ lastErr' = "none"
          /\ Len(new) > 0)
         => LET name == buildFileName(Last(new))
                old == IF name \in DOMAIN dat[st] THEN dat[st][name] ELSE << >>
            IN /\ name \in DOMAIN dat'[st]
               /\ dat'[st][name] =
                    (IF Len(old) = 0 THEN <<buildHeader(new[1])>> ELSE old) \o Lines(new)
               /\ \A m \in DOMAIN dat'[st] \ {name} :
                    m \in DOMAIN dat[st] /\ dat'[st][m] = dat[st][m]
               /\ st \in DOMAIN lastDate'
               /\ lastDate'[st] = <<Last(new).dataHora>> ]_vars

\* C14: every pass that fetched a non-empty match for its station and after
\* which the loop goes on appends that batch to the value getData returns,
\* so the returned list holds, in configuration order, one batch per station
\* with a non-empty match, a station whose save failed included.
C14_ReturnsEveryMatch ==
  [][ LET batch == getDCPs(remote, stations[idx])
      IN (/\ Pass
          /\ pc' = "loop"
          /\ lastErr' # "transport"
          /\ Len(batch) > 0)
         => outputDCP' = Append(outputDCP, batch) ]_vars

\* C15: a pass in which no operation fails, for a station that has no
\* lastDate.dat (directory absent, empty or holding data files) and a
\* non-empty match, saves every matched reading and leaves lastDate.dat at
\* the timestamp of the last reading.
C15_NoWatermarkSavesAll ==
  [][ LET st == stations[idx]
          batch == getDCPs(remote, st)
      IN (/\ Pass
          /\ faults' = faults
          /\ st \notin DOMAIN lastDate
          /\ Len(batch) > 0)
         => LET name == buildFileName(Last(batch))
                old == IF name \in DOMAIN dat[st] THEN dat[st][name] ELSE << >>
            IN /\ lastErr' = "none"
               /\ name \in DOMAIN dat'[st]
               /\ dat'[st][name] =
                    (IF Len(old) = 0 THEN <<buildHeader(batch[1])>> ELSE old) \o Lines(batch)
               /\ st \in DOMAIN lastDate'
               /\ lastDate'[st] = <<Last(batch).dataHora>> ]_vars

\* C16: the pass of one configured station leaves the directory, the
\* lastDate.dat and the output files of every other station as they were.
C16_StationDisjoint ==
  [][ Pass =>
        \A c \in Codes \ {stations[idx]} :
          /\ (c \in dirs') = (c \in dirs)
          /\ (c \in DOMAIN lastDate') = (c \in DOMAIN lastDate)
          /\ c \in DOMAIN lastDate => lastDate'[c] = lastDate[c]
          /\ dat'[c] = dat[c] ]_vars

\* One cycle saved a batch for A and then a batch for B
C16_Witness ==
  /\ pc = "returned"
  /\ pre.dirs = {}
  /\ faults = 0
  /\ Len(outputDCP) = 2
  /\ outputDCP[1][1].codestacao = "A"
  /\ outputDCP[2][1].codestacao = "B"
  /\ DOMAIN lastDate = {"A", "B"}
  /\ lastDate["A"] = <<Last(outputDCP[1]).dataHora>>
  /\ lastDate["B"] = <<Last(outputDCP[2]).dataHora>>
  /\ DOMAIN dat["A"] # {}
  /\ DOMAIN dat["B"] # {}

\* C17: when getData returns, every descriptor that openFile opened during
\* the cycle (for lastDate.dat and for the output files) has been closed,
\* whichever way the passes ended.
C17_DescriptorsClosed == pc = "returned" => fds = 0

\* C13: in the output file the header stands once, as the first line, and
\* every data line has the values of the header's fields, as many and in the
\* same order, whatever keys the readings of the batches carry.
C13_HeaderStable ==
  Len(fileF) > 0 =>
    /\ fileF[1].hdr
    /\ \A i \in 2..Len(fileF) : ~fileF[i].hdr /\ fileF[i].cols = fileF[1].cols

\* The two processes have filtered against the same watermark, have both
\* selected the reading at t and its line stands twice in the files
RaceState(t) ==
  /\ \A p \in Cycles :
       /\ cyc[p].at = "done"
       /\ \E i \in 1..Len(cyc[p].toSave) : cyc[p].toSave[i].dataHora = t
  /\ Len(cyc["c1"].last) > 0
  /\ cyc["c1"].last = cyc["c2"].last
  /\ Occurrences("A", t) >= 2

\* C18: two getData processes on the same station directory, fetching
\* ordered payloads, reach the state in which both filtered against the same
\* old watermark and the same reading was appended twice only when the two
\* were in a cycle at the same time: with one cycle at a time that state is
\* not reached.
C18_RaceOnlyWhenConcurrent ==
  (ordered /\ ~overlap) => \A t \in Times : ~RaceState(t)

\* No operation failed, the two cycles ran at the same time, both read the
\* watermark 1, both selected the reading at 2 and both appended its line
C18_Witness ==
  /\ overlap
  /\ ordered
  /\ faults = 0
  /\ RaceState(2)
  /\ cyc["c1"].last = <<1>>
  /\ lastDate["A"] = <<2>>
  /\ Occurrences("A", 2) = 2

====
